---------------------------- MODULE Spec2Model ----------------------------
(***************************************************************************)
(* Model of the volatility estimator: the tick-cleaning pipeline           *)
(* (cleaner.py), the estimator registry and the three estimators           *)
(* (estimator.py), the batch and incremental controllers (process.py) and  *)
(* the file-created handler (app.py).                                      *)
(*                                                                         *)
(* Numbers.  A timestamp is an integer day * SlotsPerDay + slot; the slot  *)
(* is the time of day.  A price is an integer; the inputs are chosen so    *)
(* that every division and every median the code performs on them is       *)
(* exact, as it is in float64 for the same values.  A logarithm is taken   *)
(* only of ratios that are powers of two and is kept in units of ln 2      *)
(* (Log2Ratio).  A volatility is kept as its square, exactly: the record   *)
(* [nan, a, b, den] stands for NaN when nan holds, and otherwise for       *)
(*      sqrt( (a - b * ln 2) / den ) * ln 2                                *)
(* so two volatilities are equal exactly when their records denote the     *)
(* same number (ln 2 is irrational, sqrt is injective on [0, oo)).         *)
(***************************************************************************)
EXTENDS Integers, Sequences, FiniteSets, TLC

(***************************************************************************)
(* Bounds of the model.                                                    *)
(***************************************************************************)
\* slots (times of day) per day: 0 .. SlotsPerDay-1
SlotsPerDay == 3
\* calendar days a raw file can be named for: 1 .. MaxDay
MaxDay == 5
\* rows of one raw file
MaxRows == 2
\* handler / controller calls in one behaviour
MaxEvents == 3
\* raw files given to one batch run
MaxFiles == 2
\* observations of a series handed to the outlier filter
MaxSeries == 5

(***************************************************************************)
(* Configuration (config.py, scripts/base_compute_volatility.py).          *)
(***************************************************************************)
\* START_TIME and END_TIME as slots, at their defaults.  START_TIME is 00:00:00,
\* slot 0, so no time of day is before it; END_TIME is 23:59:59, the slot before
\* the last, and the last slot is a time of day after 23:59:59.
START_TIME == 0
END_TIME == 1
NUM_TRADING_DAYS == 252
\* the lookback_window argument of the controllers
LOOKBACK_WINDOW == 2
\* defaults of _remove_outliers
WINDOW_SIZE == 50
THRESHOLD == 10

(***************************************************************************)
(* Arithmetic helpers.                                                     *)
(***************************************************************************)
Abs(x) == IF x < 0 THEN -x ELSE x

Max(a, b) == IF a > b THEN a ELSE b

Min(a, b) == IF a < b THEN a ELSE b

RECURSIVE SumSeq(_)
SumSeq(s) == IF s = <<>> THEN 0 ELSE Head(s) + SumSeq(Tail(s))

RECURSIVE Log2(_)
\* log2 of a power of two n >= 1 (np.log in units of ln 2)
Log2(n) == IF n <= 1 THEN 0 ELSE 1 + Log2(n \div 2)

RECURSIVE IsPow2(_)
IsPow2(n) == IF n <= 0 THEN FALSE
             ELSE IF n = 1 THEN TRUE
             ELSE n % 2 = 0 /\ IsPow2(n \div 2)

\* np.log(p / q) in units of ln 2, for prices p and q that are powers of two
Log2Ratio(p, q) == Log2(p) - Log2(q)

RECURSIVE SelectSeqIdx(_, _, _)
\* the rows of s at the indices (from i on) that satisfy keep, in order
SelectSeqIdx(s, keep, i) ==
    IF i > Len(s) THEN <<>>
    ELSE (IF keep[i] THEN <<s[i]>> ELSE <<>>) \o SelectSeqIdx(s, keep, i + 1)

RECURSIVE SortInts(_)
\* the members of a finite set of integers in ascending order
SortInts(S) ==
    IF S = {} THEN <<>>
    ELSE LET m == CHOOSE x \in S : \A y \in S : x <= y
         IN <<m>> \o SortInts(S \ {m})

RECURSIVE SortAsc(_)
\* a sequence of integers sorted ascending (duplicates kept)
SortAsc(s) ==
    IF s = <<>> THEN <<>>
    ELSE LET i == CHOOSE k \in 1..Len(s) : \A j \in 1..Len(s) : s[k] <= s[j]
         IN <<s[i]>> \o SortAsc(SubSeq(s, 1, i - 1) \o SubSeq(s, i + 1, Len(s)))

\* twice np.median of a non-empty sequence of integers (an integer)
Median2(s) ==
    LET o == SortAsc(s)
        n == Len(s)
    IN IF n % 2 = 1 THEN 2 * o[(n + 1) \div 2]
       ELSE o[n \div 2] + o[n \div 2 + 1]

(***************************************************************************)
(* Calendar.  Day 1 is a Tuesday: days 5 and 6 of every week of 7 are the  *)
(* weekend, the others are business days (pandas 'B').                     *)
(***************************************************************************)
Days == 1..MaxDay

Slots == 0..(SlotsPerDay - 1)

IsBusinessDay(d) == (d % 7) \notin {5, 6}

DayOf(ts) == ts \div SlotsPerDay

TimeOf(ts) == ts % SlotsPerDay

RECURSIVE RollBack(_)
\* the last business day at or before d
RollBack(d) == IF IsBusinessDay(d) THEN d ELSE RollBack(d - 1)

RECURSIVE RollForward(_)
\* the first business day after d
RollForward(d) == IF IsBusinessDay(d + 1) THEN d + 1 ELSE RollForward(d + 1)

RECURSIVE bdate_range(_, _)
\* pd.bdate_range(end = d, periods = n).date, ascending
bdate_range(d, n) ==
    IF n = 0 THEN <<>>
    ELSE bdate_range(RollBack(d) - 1, n - 1) \o <<RollBack(d)>>

(***************************************************************************)
(* cleaner.py.  A frame is a sequence of rows [ts, price] (with a date     *)
(* field once _add_date_column has run).                                   *)
(***************************************************************************)
Row(ts, price) == [ts |-> ts, price |-> price]

\* _filter_non_trading_hours
filter_non_trading_hours(frame) ==
    SelectSeq(SelectSeq(frame, LAMBDA r : TimeOf(r.ts) >= START_TIME),
              LAMBDA r : TimeOf(r.ts) <= END_TIME)

\* _filter_zero_prices
filter_zero_prices(frame) == SelectSeq(frame, LAMBDA r : r.price > 0)

\* the prices of the rows of frame with timestamp ts, in frame order
PricesAt(frame, ts) ==
    LET rows == SelectSeq(frame, LAMBDA r : r.ts = ts)
    IN [i \in 1..Len(rows) |-> rows[i].price]

\* _combine_identical_timestamps: groupby("ts").median(), keys ascending
combine_identical_timestamps(frame) ==
    LET keys == SortInts({frame[i].ts : i \in 1..Len(frame)})
    IN [k \in 1..Len(keys) |-> Row(keys[k], Median2(PricesAt(frame, keys[k])) \div 2)]

\* x[:half_window] ++ x[half_window + 1:]
WithoutMiddle(x, half_window) ==
    SubSeq(x, 1, Min(half_window, Len(x))) \o SubSeq(x, half_window + 2, Len(x))

\* the raw window a centred rolling(window_size, min_periods=1) hands to apply
\* for the (1-based) row i
RollingWindow(prices, window_size, i) ==
    SubSeq(prices, Max(1, i - window_size \div 2),
                   Min(Len(prices), i + window_size \div 2 - 1))

\* outliers[i]: |price - median| > threshold * MAD, with median and MAD taken
\* over WithoutMiddle of the window; compared exactly, scaled by 2 * len
IsOutlier(prices, window_size, threshold, i) ==
    LET w    == WithoutMiddle(RollingWindow(prices, window_size, i), window_size \div 2)
        med2 == Median2(w)
        dev2 == [j \in 1..Len(w) |-> Abs(2 * w[j] - med2)]
    IN Abs(2 * prices[i] - med2) * Len(w) > threshold * SumSeq(dev2)

\* _remove_outliers (window_size even; an odd one raises ValueError)
remove_outliers(frame, window_size, threshold) ==
    LET prices == [i \in 1..Len(frame) |-> frame[i].price]
        keep   == [i \in 1..Len(frame) |-> ~IsOutlier(prices, window_size, threshold, i)]
    IN SelectSeqIdx(frame, keep, 1)

\* a variant of _adjust_for_all_splits that also divides a tick stamped exactly
\* at the split date
RECURSIVE adjust_for_all_splits_inclusive(_, _)
adjust_for_all_splits_inclusive(frame, splits) ==
    IF splits = <<>> THEN frame
    ELSE adjust_for_all_splits_inclusive(
            [i \in 1..Len(frame) |->
                IF frame[i].ts <= splits[1][1] * SlotsPerDay
                THEN [frame[i] EXCEPT !.price = @ \div splits[1][2]]
                ELSE frame[i]],
            Tail(splits))

RECURSIVE adjust_for_all_splits(_, _)
\* _adjust_for_all_splits: splits is the dict as a sequence of
\* <<split day, ratio>> in insertion order
adjust_for_all_splits(frame, splits) ==
    IF splits = <<>> THEN frame
    ELSE adjust_for_all_splits(
            [i \in 1..Len(frame) |->
                IF frame[i].ts < splits[1][1] * SlotsPerDay
                THEN [frame[i] EXCEPT !.price = @ \div splits[1][2]]
                ELSE frame[i]],
            Tail(splits))

\* adjust_for_split
adjust_for_split(frame, split) ==
    [i \in 1..Len(frame) |-> [frame[i] EXCEPT !.price = @ \div split]]

\* _add_date_column
add_date_column(frame) ==
    [i \in 1..Len(frame) |->
        [ts |-> frame[i].ts, price |-> frame[i].price, date |-> DayOf(frame[i].ts)]]

\* clean_price_frame
clean_price_frame(frame, splits) ==
    add_date_column(
      adjust_for_all_splits(
        remove_outliers(
          combine_identical_timestamps(
            filter_zero_prices(filter_non_trading_hours(frame))),
          WINDOW_SIZE, THRESHOLD),
        splits))

(***************************************************************************)
(* estimator.py.  The estimators take a frame of rows [ts, price, date]    *)
(* and return one row [date, vol] per day (per business-day bar for        *)
(* Yang-Zhang), NaN rows included.                                         *)
(***************************************************************************)
NaN == [nan |-> TRUE, a |-> 0, b |-> 0, den |-> 1]

Vol(a, b, den) == [nan |-> FALSE, a |-> a, b |-> b, den |-> den]

VolRow(date, vol) == [date |-> date, vol |-> vol]

\* the distinct dates of a frame, ascending (the keys of groupby("date"))
DatesOf(frame) == SortInts({frame[i].date : i \in 1..Len(frame)})

\* sum of f[j] for j in lo..hi
RECURSIVE SumRange(_, _, _)
SumRange(f, lo, hi) == IF lo > hi THEN 0 ELSE f[lo] + SumRange(f, lo + 1, hi)

Sq(x) == x * x

\* log_return squared of row i, in units of (ln 2)^2; the first row's return is
\* NaN and dropped
SqLogReturn(price_frame, i) ==
    IF i = 1 THEN 0
    ELSE Sq(Log2Ratio(price_frame[i].price, price_frame[i - 1].price))

\* daily realised variance: the sum of the squared log returns of the rows of
\* each date
DailyRealisedVariance(price_frame, dates) ==
    [k \in 1..Len(dates) |->
        SumSeq([i \in 1..Len(price_frame) |->
            IF price_frame[i].date = dates[k] THEN SqLogReturn(price_frame, i) ELSE 0])]

\* rolling(window).mean() * NUM_TRADING_DAYS, then sqrt
TickRolling(lookback_window, dates, drv) ==
    [k \in 1..Len(dates) |->
        VolRow(dates[k],
               IF k < lookback_window THEN NaN
               ELSE Vol(NUM_TRADING_DAYS * SumRange(drv, k - lookback_window + 1, k),
                        0, lookback_window))]

TickOfDates(lookback_window, price_frame, dates) ==
    TickRolling(lookback_window, dates, DailyRealisedVariance(price_frame, dates))

\* TickAverageRealisedVariance.estimate_volatility
TickAverageRealisedVariance(lookback_window, price_frame) ==
    TickOfDates(lookback_window, price_frame, DatesOf(price_frame))

\* groupby("date")["price"].last(): the price of the last row of each date
LastPrice(rows) == rows[Len(rows)].price

LastPrices(price_frame, dates) ==
    [k \in 1..Len(dates) |->
        LastPrice(SelectSeq(price_frame, LAMBDA r : r.date = dates[k]))]

\* close-to-close log returns (the first is NaN, 0 here and never summed)
CloseReturns(last_prices) ==
    [k \in 1..Len(last_prices) |->
        IF k = 1 THEN 0 ELSE Log2Ratio(last_prices[k], last_prices[k - 1])]

Squares(f) == [k \in DOMAIN f |-> Sq(f[k])]

\* rolling(window).std() * sqrt(NUM_TRADING_DAYS): the window needs
\* lookback_window returns that are not NaN, and two for the sample deviation
CloseRolling(lookback_window, dates, lr, sq) ==
    [k \in 1..Len(dates) |->
        VolRow(dates[k],
               IF k - lookback_window + 1 < 2 \/ lookback_window < 2 THEN NaN
               ELSE Vol(NUM_TRADING_DAYS
                          * (lookback_window * SumRange(sq, k - lookback_window + 1, k)
                             - Sq(SumRange(lr, k - lookback_window + 1, k))),
                        0, lookback_window * (lookback_window - 1)))]

CloseOfReturns(lookback_window, dates, lr) ==
    CloseRolling(lookback_window, dates, lr, Squares(lr))

CloseOfDates(lookback_window, price_frame, dates) ==
    CloseOfReturns(lookback_window, dates, CloseReturns(LastPrices(price_frame, dates)))

\* CloseToCloseStdDeviation.estimate_volatility
CloseToCloseStdDeviation(lookback_window, price_frame) ==
    CloseOfDates(lookback_window, price_frame, DatesOf(price_frame))

RECURSIVE SortByTs(_)
\* the rows in ascending timestamp order, rows of one timestamp in frame order
SortByTs(frame) ==
    IF frame = <<>> THEN <<>>
    ELSE LET i == CHOOSE k \in 1..Len(frame) :
                     /\ \A j \in 1..Len(frame) : frame[k].ts <= frame[j].ts
                     /\ \A j \in 1..(k - 1) : frame[j].ts # frame[k].ts
         IN <<frame[i]>>
              \o SortByTs(SubSeq(frame, 1, i - 1) \o SubSeq(frame, i + 1, Len(frame)))

RECURSIVE BusinessDays(_, _)
\* the business days from lo to hi (both business days), ascending
BusinessDays(lo, hi) ==
    IF lo > hi THEN <<>> ELSE <<lo>> \o BusinessDays(RollForward(lo), hi)

\* the OHLC bar of business day d from the rows that fall into it
Bar(d, in) ==
    IF in = <<>> THEN [date |-> d, present |-> FALSE]
    ELSE [date |-> d, present |-> TRUE,
          open  |-> in[1].price,
          high  |-> CHOOSE p \in {in[i].price : i \in 1..Len(in)} :
                       \A i \in 1..Len(in) : p >= in[i].price,
          low   |-> CHOOSE p \in {in[i].price : i \in 1..Len(in)} :
                       \A i \in 1..Len(in) : p <= in[i].price,
          close |-> in[Len(in)].price]

\* the bars of the business days bins over the rows in timestamp order; a tick of
\* a weekend falls into the bar of the Friday before it
Bars(rows, bins) ==
    [k \in 1..Len(bins) |->
        Bar(bins[k], SelectSeq(rows, LAMBDA r : RollBack(DayOf(r.ts)) = bins[k]))]

\* the business days from the first to the last tick of rows
Bins(rows) ==
    IF rows = <<>> THEN <<>>
    ELSE BusinessDays(RollBack(DayOf(rows[1].ts)), RollBack(DayOf(rows[Len(rows)].ts)))

\* resample("B").ohlc() of rows in timestamp order
OhlcSorted(rows) == Bars(rows, Bins(rows))

\* price_frame.set_index("ts")["price"].resample("B").ohlc()
Ohlc(frame) == OhlcSorted(SortByTs(frame))

\* ln(open / previous close).fillna(0) of bar k, in units of ln 2
OvernightLog(ohlc, k) ==
    IF k > 1 /\ ohlc[k].present /\ ohlc[k - 1].present
    THEN Log2Ratio(ohlc[k].open, ohlc[k - 1].close) ELSE 0

\* ln(high / low).fillna(0) of bar k
RangeLog(ohlc, k) ==
    IF ohlc[k].present THEN Log2Ratio(ohlc[k].high, ohlc[k].low) ELSE 0

\* ln(close / open).fillna(0) of bar k
IntradayLog(ohlc, k) ==
    IF ohlc[k].present THEN Log2Ratio(ohlc[k].close, ohlc[k].open) ELSE 0

\* Twice the term of bar k is  ta - tb * ln 2  in units of (ln 2)^2:
\*   2 o^2 + hl^2 + 2 co^2 - (4 ln 2) co^2  =  2 (o^2 + 0.5 hl^2 - (2 ln 2 - 1) co^2)
YangZhangTermA(ohlc) ==
    [k \in 1..Len(ohlc) |->
        2 * Sq(OvernightLog(ohlc, k)) + Sq(RangeLog(ohlc, k))
          + 2 * Sq(IntradayLog(ohlc, k))]

YangZhangTermB(ohlc) == [k \in 1..Len(ohlc) |-> 4 * Sq(IntradayLog(ohlc, k))]

\* a variant of the rolling sum without fillna(0): undefined when a bar of the
\* window, or the bar before a bar of the window, is absent
YangZhangRollingPropagating(lookback_window, ohlc, ta, tb) ==
    [k \in 1..Len(ohlc) |->
        VolRow(ohlc[k].date,
               IF \/ k < lookback_window
                  \/ \E j \in (k - lookback_window + 1)..k :
                        ~ohlc[j].present \/ (j > 1 /\ ~ohlc[j - 1].present)
               THEN NaN
               ELSE Vol(NUM_TRADING_DAYS * SumRange(ta, k - lookback_window + 1, k),
                        NUM_TRADING_DAYS * SumRange(tb, k - lookback_window + 1, k),
                        2 * lookback_window))]

\* (NUM_TRADING_DAYS / lookback_window) * rolling(window).sum() of the terms
YangZhangRolling(lookback_window, ohlc, ta, tb) ==
    [k \in 1..Len(ohlc) |->
        VolRow(ohlc[k].date,
               IF k < lookback_window THEN NaN
               ELSE Vol(NUM_TRADING_DAYS * SumRange(ta, k - lookback_window + 1, k),
                        NUM_TRADING_DAYS * SumRange(tb, k - lookback_window + 1, k),
                        2 * lookback_window))]

YangZhangOfBars(lookback_window, ohlc) ==
    YangZhangRolling(lookback_window, ohlc, YangZhangTermA(ohlc), YangZhangTermB(ohlc))

\* YangZhang.estimate_volatility
YangZhang(lookback_window, price_frame) ==
    YangZhangOfBars(lookback_window, Ohlc(price_frame))

\* VolatilityEstimatorName, and one name that is no member of it
EstimatorNames ==
    {"tick_average_realised_variance", "close_to_close_std_deviation", "yang_zhang"}

OtherName == "garman_klass"

Names == EstimatorNames \cup {OtherName}

Classes == {"TickAverageRealisedVariance", "CloseToCloseStdDeviation", "YangZhang"}

\* VolatilityEstimator.estimate_volatility of an instance of class cls
estimate_volatility(cls, lookback_window, price_frame) ==
    CASE cls = "TickAverageRealisedVariance" ->
            TickAverageRealisedVariance(lookback_window, price_frame)
      [] cls = "CloseToCloseStdDeviation" ->
            CloseToCloseStdDeviation(lookback_window, price_frame)
      [] cls = "YangZhang" -> YangZhang(lookback_window, price_frame)

\* __SAMPLER__ once estimator.py is imported: the three decorated classes
SamplerAtImport ==
    [n \in EstimatorNames |->
        CASE n = "tick_average_realised_variance" -> "TickAverageRealisedVariance"
          [] n = "close_to_close_std_deviation" -> "CloseToCloseStdDeviation"
          [] n = "yang_zhang" -> "YangZhang"]

\* a variant of tail(1) that keeps the whole frame
WholeFrame(frame) == frame

\* DataFrame.tail(1)
Tail1(frame) == IF frame = <<>> THEN <<>> ELSE <<frame[Len(frame)]>>

(***************************************************************************)
(* Stores.  The cleaned price store of the one instrument is a parquet     *)
(* dataset partitioned by date: clean_prices[d] is the files of partition   *)
(* date=d, each a record [name, rows], in the order of their paths, and     *)
(* <<>> when the partition does not exist.  A read of a partition takes its *)
(* files in that order, which is the order of the names the writes drew and *)
(* not the order of the writes.  The volatility store holds one file per    *)
(* estimator name (the lookback window is the same in every call).          *)
(***************************************************************************)
\* the names of the files of the dataset.  A file is named by the uuid4 its
\* write drew, and of a name only its rank among the names is kept: 1 is the
\* name that sorts first
FileNames(store) ==
    UNION {{store[d][i].name : i \in 1..Len(store[d])} : d \in Days}

\* where the name drawn by the next write can fall: after guid of the names
\* that are there
Guids(store) == 0..Cardinality(FileNames(store))

\* the rank of a name once a new name has taken rank guid + 1
Renamed(name, guid) == IF name > guid THEN name + 1 ELSE name

\* the files of a partition once a new name has taken rank guid + 1
RenamedFiles(files, guid) ==
    [i \in 1..Len(files) |->
        [name |-> Renamed(files[i].name, guid), rows |-> files[i].rows]]

\* a partition, its files in the order of their paths, with one more file
AddFile(files, guid, rows) ==
    IF rows = <<>> THEN files
    ELSE SelectSeq(files, LAMBDA f : f.name <= guid)
         \o <<[name |-> guid + 1, rows |-> rows]>>
         \o SelectSeq(files, LAMBDA f : f.name > guid + 1)

\* the rows of the frame that go to partition date=d
WithoutDate(rows) == [i \in 1..Len(rows) |-> Row(rows[i].ts, rows[i].price)]

RowsOn(frame, d) == WithoutDate(SelectSeq(frame, LAMBDA r : r.date = d))

\* DataFrame.to_parquet(path, partition_cols=["date"]) on an existing dataset:
\* every partition the frame has rows for gets one more file, all of them under
\* the one name the write draws; no file that is already there is removed or
\* rewritten, and a frame without rows writes nothing
to_parquet(store, frame, guid) ==
    IF frame = <<>> THEN store
    ELSE [d \in Days |-> AddFile(RenamedFiles(store[d], guid), guid, RowsOn(frame, d))]

\* every dataset the write can leave, one for each name it can draw
Written(store, frame) == {to_parquet(store, frame, guid) : guid \in Guids(store)}

RECURSIVE ReadFiles(_, _)
\* the rows of the files in the order given, with the partition's date as
\* their date
ReadFiles(files, d) ==
    IF files = <<>> THEN <<>>
    ELSE [i \in 1..Len(Head(files).rows) |->
             [ts |-> Head(files).rows[i].ts, price |-> Head(files).rows[i].price,
              date |-> d]]
         \o ReadFiles(Tail(files), d)

\* the rows of partition date=d: its files are read in the order of their paths
read_partition(store, d) == ReadFiles(store[d], d)

RECURSIVE ConcatDays(_, _)
\* pd.concat of the partitions of the days in the sequence ds
ConcatDays(store, ds) ==
    IF ds = <<>> THEN <<>>
    ELSE read_partition(store, Head(ds)) \o ConcatDays(store, Tail(ds))

\* pd.read_parquet of the whole dataset: the partitions in date order
read_parquet(store) == ConcatDays(store, SortInts(Days))

\* the dataset directory exists once a file has been written to it
StoreExists(store) == \E d \in Days : store[d] # <<>>

EmptyStore == [d \in Days |-> <<>>]

NoFile == [exists |-> FALSE, rows |-> <<>>]

NoVol == [n \in Names |-> NoFile]

(***************************************************************************)
(* process.py.  Each controller is an operator from the state it reads to  *)
(* its outcome and the state it leaves.                                    *)
(***************************************************************************)
\* the rebase at the end of incremental_process_prices: with a split ratio other
\* than 1 the whole dataset is read, divided and written to the same path; the
\* read raises FileNotFoundError when nothing was ever written to the path
rebase_prices(stored, split_ratio) ==
    IF split_ratio = 1
    THEN {[outcome |-> "stored", warned |-> FALSE, store |-> stored]}
    ELSE IF ~StoreExists(stored)
    THEN {[outcome |-> "FileNotFoundError", warned |-> FALSE, store |-> stored]}
    ELSE {[outcome |-> "rebased", warned |-> FALSE, store |-> s] :
            s \in Written(stored, adjust_for_split(read_parquet(stored), split_ratio))}

\* incremental_process_prices(stock, file_path, split_ratio): every outcome the
\* call can have, one for each name its writes can draw
incremental_process_prices(store, price_frame, split_ratio) ==
    IF price_frame = <<>>
    THEN {[outcome |-> "warned", warned |-> TRUE, store |-> store]}
    ELSE UNION {rebase_prices(s, split_ratio) :
                  s \in Written(store, clean_price_frame(price_frame, <<>>))}

\* a variant of register_estimator that rebinds a name already registered
register_estimator_overwriting(registry, name, cls) ==
    [outcome |-> "registered",
     registry |-> [n \in DOMAIN registry \cup {name} |->
                     IF n = name THEN cls ELSE registry[n]]]

\* register_estimator(name)(cls): NameError when name is registered already
register_estimator(registry, name, cls) ==
    IF name \in DOMAIN registry
    THEN [outcome |-> "NameError", registry |-> registry]
    ELSE [outcome |-> "registered",
          registry |-> [n \in DOMAIN registry \cup {name} |->
                          IF n = name THEN cls ELSE registry[n]]]

\* get_estimator: the class registered under name, or NameError
get_estimator(registry, name) ==
    IF name \notin DOMAIN registry THEN "NameError" ELSE registry[name]

\* base_compute_volatility(stock, estimator_method, lookback_window)
base_compute_volatility(registry, store, vol, estimator_method, lookback_window) ==
    LET estimator == get_estimator(registry, estimator_method)
    IN IF estimator = "NameError"
       THEN [outcome |-> "NameError", vol |-> vol]
       ELSE IF ~StoreExists(store)
       THEN [outcome |-> "FileNotFoundError", vol |-> vol]
       ELSE [outcome |-> "stored",
             vol |-> [vol EXCEPT ![estimator_method] =
                        [exists |-> TRUE,
                         rows |-> estimate_volatility(estimator, lookback_window,
                                                      read_parquet(store))]]]

\* a variant of incremental_compute_volatility that reads the partitions that
\* exist and goes on when one of the window is missing
incremental_compute_volatility_skipping_gaps(registry, store, vol, date, estimator_method, lookback_window) ==
    LET estimator == get_estimator(registry, estimator_method)
        present   == SelectSeq(bdate_range(date, lookback_window),
                               LAMBDA d : d \in Days /\ store[d] # <<>>)
    IN IF estimator = "NameError"
       THEN [outcome |-> "NameError", vol |-> vol]
       ELSE IF ~vol[estimator_method].exists
       THEN [outcome |-> "FileNotFoundError", vol |-> vol]
       ELSE [outcome |-> "stored",
             vol |-> [vol EXCEPT ![estimator_method].rows =
                        @ \o Tail1(estimate_volatility(estimator, lookback_window,
                                                       ConcatDays(store, present)))]]

\* incremental_compute_volatility(stock, date, estimator_method, lookback_window)
incremental_compute_volatility(registry, store, vol, date, estimator_method, lookback_window) ==
    LET estimator     == get_estimator(registry, estimator_method)
        previous_days == bdate_range(date, lookback_window)
    IN IF estimator = "NameError"
       THEN [outcome |-> "NameError", vol |-> vol]
       ELSE IF \E k \in 1..Len(previous_days) :
                  previous_days[k] \notin Days \/ store[previous_days[k]] = <<>>
       THEN [outcome |-> "critical", vol |-> vol]
       ELSE LET hist_vol_frame ==
                    estimate_volatility(estimator, lookback_window,
                                        ConcatDays(store, previous_days))
                new_vol_estimate == Tail1(hist_vol_frame)
            IN IF ~vol[estimator_method].exists
               THEN [outcome |-> "FileNotFoundError", vol |-> vol]
               ELSE [outcome |-> "stored",
                     vol |-> [vol EXCEPT ![estimator_method].rows =
                                            @ \o new_vol_estimate]]

(***************************************************************************)
(* app.py.                                                                 *)
(***************************************************************************)
\* STOCK_SPLITS of the instrument, the dict as a sequence of <<split day, ratio>>.
\* The model's one split is on the Friday, day 4, with a ratio that divides
\* the model's prices exactly.
STOCK_SPLITS == << <<4, 2>> >>

ESTIMATOR_METHODS ==
    <<"tick_average_realised_variance", "close_to_close_std_deviation", "yang_zhang">>

\* scripts/base_compute_volatility.py: the stock's directory is globbed, so a
\* store that does not exist is skipped; otherwise every estimator is run
RECURSIVE base_compute_from(_, _, _, _)
base_compute_from(registry, store, vol, k) ==
    IF k > Len(ESTIMATOR_METHODS)
    THEN vol
    ELSE base_compute_from(registry, store,
                           base_compute_volatility(registry, store, vol,
                                                   ESTIMATOR_METHODS[k],
                                                   LOOKBACK_WINDOW).vol,
                           k + 1)

base_compute_script(registry, store, vol) ==
    IF StoreExists(store) THEN base_compute_from(registry, store, vol, 1) ELSE vol

\* STOCK_SPLITS.get(stock, {}).get(formatted_date, 1)
SplitRatioOn(date) ==
    IF \E k \in 1..Len(STOCK_SPLITS) : STOCK_SPLITS[k][1] = date
    THEN (CHOOSE e \in {STOCK_SPLITS[k] : k \in 1..Len(STOCK_SPLITS)} : e[1] = date)[2]
    ELSE 1

RECURSIVE ComputeEach(_, _, _, _, _)
RECURSIVE ComputeNext(_, _, _, _, _)
\* the loop of Handler.on_created over the estimator methods
ComputeEach(registry, store, vol, date, methods) ==
    IF methods = <<>> THEN [outcomes |-> <<>>, vol |-> vol]
    ELSE ComputeNext(registry, store, date, methods,
                     incremental_compute_volatility(registry, store, vol, date,
                                                    Head(methods), LOOKBACK_WINDOW))

PrependOutcome(outcome, rest) ==
    [outcomes |-> <<outcome>> \o rest.outcomes, vol |-> rest.vol]

\* r is what the call for Head(methods) left: an exception ends the handler and
\* the methods after it are not run
ComputeNext(registry, store, date, methods, r) ==
    IF r.outcome \in {"NameError", "FileNotFoundError"}
    THEN [outcomes |-> <<r.outcome>> \o [i \in 1..(Len(methods) - 1) |-> "not_run"],
          vol |-> r.vol]
    ELSE PrependOutcome(r.outcome,
                        ComputeEach(registry, store, r.vol, date, Tail(methods)))

HandlerResult(p, c) ==
    [process |-> p.outcome, warned |-> p.warned, store |-> p.store,
     unlinked |-> TRUE, outcomes |-> c.outcomes, vol |-> c.vol]

\* the handler after incremental_process_prices has left p: an exception of
\* incremental_process_prices ends the handler before the raw file is unlinked
\* and before any estimator is run
on_created_compute(registry, vol, date, p) ==
    IF p.outcome = "FileNotFoundError"
    THEN [process |-> p.outcome, warned |-> p.warned, store |-> p.store,
          unlinked |-> FALSE,
          outcomes |-> [i \in 1..Len(ESTIMATOR_METHODS) |-> "not_run"],
          vol |-> vol]
    ELSE HandlerResult(p, ComputeEach(registry, p.store, vol, date, ESTIMATOR_METHODS))

\* Handler.on_created for a file that matches the pattern: every outcome the
\* call can have
on_created(registry, store, vol, date, price_frame) ==
    {on_created_compute(registry, vol, date, p) :
        p \in incremental_process_prices(store, price_frame, SplitRatioOn(date))}

(***************************************************************************)
(* process.py, the batch processing of raw files.                          *)
(***************************************************************************)
RECURSIVE load_clean_combine_price_frames(_, _)
\* _load_clean_comine_price_frames: the cleaned frames of the non-empty files,
\* concatenated in the order the files are given
load_clean_combine_price_frames(stock_file_paths, stock_splits) ==
    IF stock_file_paths = <<>> THEN <<>>
    ELSE (IF Head(stock_file_paths) = <<>> THEN <<>>
          ELSE clean_price_frame(Head(stock_file_paths), stock_splits))
         \o load_clean_combine_price_frames(Tail(stock_file_paths), stock_splits)

\* base_process_prices(stock, stock_file_paths, stock_splits): pd.concat raises
\* ValueError when no file has rows; otherwise the old dataset is deleted and
\* the combined frame written
base_process_prices(store, stock_file_paths, stock_splits) ==
    IF \A k \in 1..Len(stock_file_paths) : stock_file_paths[k] = <<>>
    THEN [outcome |-> "ValueError", store |-> store]
    ELSE [outcome |-> "stored",
          store |-> to_parquet(EmptyStore,
                       load_clean_combine_price_frames(stock_file_paths, stock_splits),
                       0)]

(***************************************************************************)
(* Inputs.                                                                 *)
(***************************************************************************)
RawPrices == {0, 64, 128}

\* the rows a raw file named for day d can hold
RawRows(d) == {Row(d * SlotsPerDay + s, p) : s \in Slots, p \in RawPrices}

SeqsUpTo(S, n) == UNION {[1..k -> S] : k \in 0..n}

\* the raw files named for day d
RawFiles(d) == SeqsUpTo(RawRows(d), MaxRows)

\* the ticks of one day: no tick, one tick, or a tick at START_TIME and one at
\* END_TIME
DayPrices == {<<>>, <<64>>, <<128>>, <<64, 128>>, <<128, 64>>}

DayTicks(d, ps) ==
    [i \in 1..Len(ps) |->
        Row(d * SlotsPerDay + (IF i = 1 THEN START_TIME ELSE END_TIME), ps[i])]

\* the raw files that arrive for each day: the empty file, a file whose one row
\* cleaning filters out, and the files of one or two ticks, which cleaning
\* leaves as they are
Incoming ==
    [d \in Days |->
        {<<>>, <<Row(d * SlotsPerDay, 0)>>}
        \cup {DayTicks(d, ps) : ps \in DayPrices \ {<<>>}}]

\* the raw histories the batch script is run on here: one file for each of the
\* first n days, n <= MaxRows + 1, each file one tick at START_TIME
HistoryFile(d, p) == <<Row(d * SlotsPerDay + START_TIME, p)>>

Histories ==
    UNION {{[d \in 1..n |-> HistoryFile(d, ps[d])] : ps \in [1..n -> RawPrices \ {0}]} :
             n \in 1..(MaxRows + 1)}

\* the frames and split maps split rebasing is applied to: a tick at midnight
\* and a tick at the last slot of every day, split maps of up to two dates
SplitRows == {Row(d * SlotsPerDay, 64) : d \in Days}
             \cup {Row(d * SlotsPerDay + SlotsPerDay - 1, 128) : d \in Days}

SplitMaps ==
    LET E == {2, 4} \X {2, 4}
    IN {<<>>} \cup {<<e>> : e \in E}
              \cup {<<p[1], p[2]>> : p \in {q \in E \X E : q[1][1] # q[2][1]}}

SplitInputs(max_rows) ==
    {[op |-> "adjust_for_all_splits", frame |-> f, splits |-> m, split |-> 1] :
        f \in SeqsUpTo(SplitRows, max_rows), m \in SplitMaps}
    \cup {[op |-> "adjust_for_split", frame |-> f, splits |-> <<>>, split |-> r] :
        f \in SeqsUpTo(SplitRows, max_rows), r \in {2, 4}}

\* the lists of raw files one batch run is given: files of day 1
BatchInputs(max_files) ==
    {[op |-> "base_process_prices", files |-> fs] :
        fs \in SeqsUpTo(RawFiles(1), max_files)}

\* the price histories the Yang-Zhang estimator is applied to: the price
\* stores with a partition of such ticks, or none, for every day
PriceStores(days) ==
    {[d \in days |->
        IF ps[d] = <<>> THEN <<>> ELSE <<[name |-> 1, rows |-> DayTicks(d, ps[d])]>>] :
     ps \in [days -> DayPrices]}

EstimatorInputs(days) ==
    {[op |-> "yang_zhang", frame |-> read_parquet(store)] : store \in PriceStores(days)}

\* the series, window sizes and thresholds the outlier filter is applied to:
\* one observation per slot from the first slot of day 1 on
SeriesOf(prices) == [i \in 1..Len(prices) |-> Row(SlotsPerDay + i - 1, prices[i])]

OutlierInputs(max_series) ==
    {[op |-> "remove_outliers", frame |-> SeriesOf(ps), window_size |-> w,
      threshold |-> t] :
        ps \in SeqsUpTo({32, 64, 128}, max_series), w \in {2, 4, WINDOW_SIZE},
        t \in {1, THRESHOLD}}

NoArg == [op |-> "none"]

(***************************************************************************)
(* State.                                                                  *)
(***************************************************************************)
VARIABLES
    sampler,       \* __SAMPLER__: registered name -> class
    clean_prices,  \* the cleaned price store
    hist_vol,      \* the volatility store: name -> [exists, rows]
    ev,            \* the last call: its arguments, outcome and the state before;
                   \* process is what incremental_process_prices did, unlinked
                   \* whether the handler removed the raw file
    n_events,      \* calls so far
    arg,           \* the input of the function under study (SpecSplits, SpecBatch)
    ret            \* its result

vars == <<sampler, clean_prices, hist_vol, ev, n_events, arg, ret>>

Event(op, date, method, cls, raw_empty, cleaned, warned, outcomes) ==
    [op |-> op, date |-> date, method |-> method, cls |-> cls,
     raw_empty |-> raw_empty, cleaned |-> cleaned,
     warned |-> warned, outcomes |-> outcomes,
     process |-> "", unlinked |-> FALSE,
     pre_sampler |-> sampler, pre_prices |-> clean_prices, pre_vol |-> hist_vol]

\* the state once the modules are imported: nothing stored yet
Start ==
    /\ sampler = SamplerAtImport
    /\ clean_prices = EmptyStore
    /\ hist_vol = NoVol
    /\ ev = [op |-> "init", date |-> 0, method |-> "", cls |-> "",
             raw_empty |-> FALSE, cleaned |-> <<>>,
             warned |-> FALSE, outcomes |-> <<>>,
             process |-> "", unlinked |-> FALSE,
             pre_sampler |-> SamplerAtImport, pre_prices |-> EmptyStore,
             pre_vol |-> NoVol]
    /\ n_events = 0
    /\ ret = <<>>

Init == Start /\ arg = NoArg

\* register_estimator(name)(cls)
RegisterEstimator(name, cls) ==
    /\ n_events < MaxEvents
    /\ n_events' = n_events + 1
    /\ \E r \in {register_estimator(sampler, name, cls)} :
          /\ sampler' = r.registry
          /\ ev' = Event("register", 0, name, cls, FALSE, <<>>, FALSE, <<r.outcome>>)
    /\ UNCHANGED <<clean_prices, hist_vol, arg, ret>>

\* a run of base_process_prices over the raw files
BaseProcessPrices(stock_file_paths) ==
    /\ n_events < MaxEvents
    /\ n_events' = n_events + 1
    /\ \E r \in {base_process_prices(clean_prices, stock_file_paths, STOCK_SPLITS)} :
          /\ clean_prices' = r.store
          /\ ev' = Event("base_process", 0, "", "", FALSE, <<>>, FALSE, <<r.outcome>>)
    /\ UNCHANGED <<sampler, hist_vol, arg, ret>>

\* Handler.on_created for the raw file of day date
OnCreated(date, price_frame) ==
    /\ n_events < MaxEvents
    /\ n_events' = n_events + 1
    /\ \E r \in on_created(sampler, clean_prices, hist_vol, date, price_frame) :
          /\ clean_prices' = r.store
          /\ hist_vol' = r.vol
          /\ ev' = [Event("on_created", date, "", "", price_frame = <<>>,
                          clean_price_frame(price_frame, <<>>), r.warned, r.outcomes)
                      EXCEPT !.process = r.process, !.unlinked = r.unlinked]
    /\ UNCHANGED <<sampler, arg, ret>>

\* a call of incremental_process_prices with the raw file of day date
IncrementalProcessPrices(date, price_frame, split_ratio) ==
    /\ n_events < MaxEvents
    /\ n_events' = n_events + 1
    /\ \E r \in incremental_process_prices(clean_prices, price_frame, split_ratio) :
          /\ clean_prices' = r.store
          /\ ev' = [Event("incremental_process", date, "", "", price_frame = <<>>,
                          clean_price_frame(price_frame, <<>>), r.warned, <<>>)
                      EXCEPT !.process = r.outcome]
    /\ UNCHANGED <<sampler, hist_vol, arg, ret>>

\* a call of base_compute_volatility
BaseComputeVolatility(method) ==
    /\ n_events < MaxEvents
    /\ n_events' = n_events + 1
    /\ \E r \in {base_compute_volatility(sampler, clean_prices, hist_vol, method,
                                        LOOKBACK_WINDOW)} :
          /\ hist_vol' = r.vol
          /\ ev' = Event("base_compute", 0, method, "", FALSE, <<>>, FALSE,
                         <<r.outcome>>)
    /\ UNCHANGED <<sampler, clean_prices, arg, ret>>

\* a run of scripts/base_compute_volatility.py: every estimator of the
\* script's list over the stock's store, when the store exists
BaseComputeScript ==
    /\ n_events < MaxEvents
    /\ n_events' = n_events + 1
    /\ hist_vol' = base_compute_script(sampler, clean_prices, hist_vol)
    /\ ev' = Event("base_compute_script", 0, "", "", FALSE, <<>>, FALSE, <<>>)
    /\ UNCHANGED <<sampler, clean_prices, arg, ret>>

\* a call of incremental_compute_volatility
IncrementalComputeVolatility(date, method) ==
    /\ n_events < MaxEvents
    /\ n_events' = n_events + 1
    /\ \E r \in {incremental_compute_volatility(sampler, clean_prices, hist_vol, date,
                                               method, LOOKBACK_WINDOW)} :
          /\ hist_vol' = r.vol
          /\ ev' = Event("incremental_compute", date, method, "", FALSE, <<>>, FALSE,
                         <<r.outcome>>)
    /\ UNCHANGED <<sampler, clean_prices, arg, ret>>

\* the batch scripts and the file handler, on the registry as imported
Next ==
    \/ \E stock_file_paths \in Histories : BaseProcessPrices(stock_file_paths)
    \/ \E method \in EstimatorNames : BaseComputeVolatility(method)
    \/ BaseComputeScript
    \/ \E date \in Days : \E price_frame \in Incoming[date] :
          OnCreated(date, price_frame)

Spec == Init /\ [][Next]_vars

\* the registry and the two volatility controllers called with any name
NextRegistry ==
    \/ \E name \in Names, cls \in Classes : RegisterEstimator(name, cls)
    \/ \E stock_file_paths \in Histories : BaseProcessPrices(stock_file_paths)
    \/ \E method \in Names : BaseComputeVolatility(method)
    \/ \E date \in Days, method \in Names : IncrementalComputeVolatility(date, method)

SpecRegistry == Init /\ [][NextRegistry]_vars

\* split rebasing applied to the drawn frame
AdjustForAllSplits ==
    /\ arg.op = "adjust_for_all_splits"
    /\ ev.op = "init"
    /\ ret' = adjust_for_all_splits(arg.frame, arg.splits)
    /\ ev' = [ev EXCEPT !.op = "adjust_for_all_splits"]
    /\ UNCHANGED <<sampler, clean_prices, hist_vol, n_events, arg>>

AdjustForSplit ==
    /\ arg.op = "adjust_for_split"
    /\ ev.op = "init"
    /\ ret' = adjust_for_split(arg.frame, arg.split)
    /\ ev' = [ev EXCEPT !.op = "adjust_for_split"]
    /\ UNCHANGED <<sampler, clean_prices, hist_vol, n_events, arg>>

InitSplits == Start /\ arg \in SplitInputs(MaxRows)

NextSplits == AdjustForAllSplits \/ AdjustForSplit

SpecSplits == InitSplits /\ [][NextSplits]_vars

\* one batch run over the drawn list of raw files
BatchRun ==
    /\ ev.op = "init"
    /\ BaseProcessPrices(arg.files)

InitBatch == Start /\ arg \in BatchInputs(MaxFiles)

NextBatch == BatchRun

SpecBatch == InitBatch /\ [][NextBatch]_vars

\* the Yang-Zhang estimator applied to the drawn history
EstimateYangZhang ==
    /\ arg.op = "yang_zhang"
    /\ ev.op = "init"
    /\ ret' = YangZhang(LOOKBACK_WINDOW, arg.frame)
    /\ ev' = [ev EXCEPT !.op = "yang_zhang"]
    /\ UNCHANGED <<sampler, clean_prices, hist_vol, n_events, arg>>

InitEstimate == Start /\ arg \in EstimatorInputs(Days)

NextEstimate == EstimateYangZhang

SpecEstimate == InitEstimate /\ [][NextEstimate]_vars

\* the outlier filter applied to the drawn series
RemoveOutliers ==
    /\ arg.op = "remove_outliers"
    /\ ev.op = "init"
    /\ ret' = remove_outliers(arg.frame, arg.window_size, arg.threshold)
    /\ ev' = [ev EXCEPT !.op = "remove_outliers"]
    /\ UNCHANGED <<sampler, clean_prices, hist_vol, n_events, arg>>

InitOutliers == Start /\ arg \in OutlierInputs(MaxSeries)

NextOutliers == RemoveOutliers

SpecOutliers == InitOutliers /\ [][NextOutliers]_vars

\* one call of incremental_compute_volatility, for any calendar day, on a store
\* whose series scripts/base_compute_volatility.py has written
IncrementalCall ==
    /\ ev.op = "init"
    /\ \E date \in Days, method \in EstimatorNames :
          IncrementalComputeVolatility(date, method)

InitIncremental ==
    /\ sampler = SamplerAtImport
    /\ clean_prices \in PriceStores(Days)
    /\ hist_vol = base_compute_script(SamplerAtImport, clean_prices, NoVol)
    /\ ev = [op |-> "init", date |-> 0, method |-> "", cls |-> "",
             raw_empty |-> FALSE, cleaned |-> <<>>,
             warned |-> FALSE, outcomes |-> <<>>,
             process |-> "", unlinked |-> FALSE,
             pre_sampler |-> SamplerAtImport, pre_prices |-> clean_prices,
             pre_vol |-> hist_vol]
    /\ n_events = 0
    /\ ret = <<>>
    /\ arg = NoArg

\* one call of incremental_process_prices on the drawn store: the empty file,
\* a file cleaning leaves no row of, or a file of one tick, with or without a
\* split ratio
ProcessCall ==
    /\ ev.op = "init"
    /\ \E date \in Days, split_ratio \in {1, 2} :
          \E price_frame \in {<<>>, <<Row(date * SlotsPerDay, 0)>>, HistoryFile(date, 64)} :
             IncrementalProcessPrices(date, price_frame, split_ratio)

NextIncremental == IncrementalCall \/ ProcessCall

SpecIncremental == InitIncremental /\ [][NextIncremental]_vars

(***************************************************************************)
(* Helpers of the properties.                                              *)
(***************************************************************************)
MethodIndex == 1..Len(ESTIMATOR_METHODS)

LastRow(rows) == rows[Len(rows)]

StrictlyAscending(rows) == \A i \in 1..(Len(rows) - 1) : rows[i].ts < rows[i + 1].ts

\* a store as one cleaning run per day leaves it: partitions of business days
\* only, each with strictly ascending timestamps
CleanHistory(store) ==
    \A d \in Days : /\ StrictlyAscending(read_partition(store, d))
                    /\ store[d] # <<>> => IsBusinessDay(d)

\* the partitions of the n business days ending at date all exist
HasWindow(store, date, n) ==
    \A k \in 1..n : /\ bdate_range(date, n)[k] \in Days
                    /\ store[bdate_range(date, n)[k]] # <<>>

\* the handler has just run for a non-empty file of day date
Cycle == ev.op = "on_created" /\ ~ev.raw_empty

\* the series a batch recompute of estimator k would write from the store
BatchSeries(k) ==
    estimate_volatility(sampler[ESTIMATOR_METHODS[k]], LOOKBACK_WINDOW,
                        read_parquet(clean_prices))

(***************************************************************************)
(* C1.  After an incremental cycle for a new business day D on a cleaned   *)
(* history of at least lookback_window + 1 business days, the record the   *)
(* cycle appended for an estimator has the volatility that a batch         *)
(* recompute over the entire history gives for D.                          *)
(***************************************************************************)
C1_Case ==
    /\ Cycle
    /\ SplitRatioOn(ev.date) = 1
    /\ IsBusinessDay(ev.date)
    /\ CleanHistory(clean_prices)
    /\ \A d \in Days : d > ev.date => clean_prices[d] = <<>>
    /\ HasWindow(clean_prices, ev.date, LOOKBACK_WINDOW + 1)

C1_SameAsBatch(k) ==
    (C1_Case /\ ev.outcomes[k] = "stored")
    => \E i \in 1..Len(BatchSeries(k)) :
          /\ BatchSeries(k)[i].date = ev.date
          /\ BatchSeries(k)[i].vol = LastRow(hist_vol[ESTIMATOR_METHODS[k]].rows).vol

C1_IncrementalEqualsBatch == \A k \in MethodIndex : C1_SameAsBatch(k)

(***************************************************************************)
(* C2.  A cycle for a raw file of zero rows mutates no persisted state     *)
(* (price store and every volatility series as before) and reports a       *)
(* warning.                                                                *)
(***************************************************************************)
C2_EmptyFileMutatesNothing ==
    (ev.op = "on_created" /\ ev.raw_empty)
    => /\ ev.warned
       /\ clean_prices = ev.pre_prices
       /\ hist_vol = ev.pre_vol

(***************************************************************************)
(* C3.  When the partition of one of the last lookback_window business     *)
(* days ending at the new date is missing, incremental_compute_volatility  *)
(* called with a registered estimator reports the fatal error, runs no     *)
(* estimator and leaves every persisted volatility series as it was.       *)
(***************************************************************************)
C3_Missing ==
    /\ ev.op = "incremental_compute"
    /\ ev.method \in DOMAIN sampler
    /\ ~HasWindow(clean_prices, ev.date, LOOKBACK_WINDOW)

C3_MissingPartitionAborts ==
    C3_Missing => /\ ev.outcomes = <<"critical">>
                  /\ hist_vol = ev.pre_vol

\* a call for a day whose own partition is there and whose series exists, with
\* a gap earlier in the window
C3_Witness ==
    /\ C3_Missing
    /\ clean_prices[ev.date] # <<>>
    /\ ev.pre_vol[ev.method].exists
    /\ ev.outcomes = <<"critical">>

(***************************************************************************)
(* C4.  After a cycle for a day with a split of ratio r # 1, the store     *)
(* holds every tick it held before exactly once with its price divided by  *)
(* r, and the newly arrived ticks with their cleaned, undivided price.     *)
(***************************************************************************)
\* the ticks partition date=d holds, as a read gives them
Ticks(store, d) == WithoutDate(read_partition(store, d))

Occurrences(rows, x) == Cardinality({i \in 1..Len(rows) : rows[i] = x})

SameTicks(rows1, rows2) ==
    /\ Len(rows1) = Len(rows2)
    /\ \A i \in 1..Len(rows1) : Occurrences(rows1, rows1[i]) = Occurrences(rows2, rows1[i])

ArrivedOn(d) ==
    IF d = ev.date
    THEN [i \in 1..Len(ev.cleaned) |->
            Row(ev.cleaned[i].ts, ev.cleaned[i].price)]
    ELSE <<>>

C4_SplitRebasesOldTicksOnce ==
    (Cycle /\ SplitRatioOn(ev.date) # 1)
    => \A d \in Days :
          SameTicks(Ticks(clean_prices, d),
                    adjust_for_split(Ticks(ev.pre_prices, d), SplitRatioOn(ev.date))
                      \o ArrivedOn(d))

(***************************************************************************)
(* C5.  An incremental_compute_volatility call that completes leaves the   *)
(* persisted series equal to the previous series, unchanged and in the     *)
(* same order, followed by exactly one new record, and leaves every other  *)
(* series as it was.                                                       *)
(***************************************************************************)
C5_Completed == ev.op = "incremental_compute" /\ ev.outcomes = <<"stored">>

C5_AppendOnly ==
    C5_Completed
    => /\ Len(hist_vol[ev.method].rows) = Len(ev.pre_vol[ev.method].rows) + 1
       /\ SubSeq(hist_vol[ev.method].rows, 1, Len(ev.pre_vol[ev.method].rows))
            = ev.pre_vol[ev.method].rows
       /\ \A n \in Names \ {ev.method} : hist_vol[n] = ev.pre_vol[n]

\* a call that extended a series of at least two records
C5_Witness ==
    /\ C5_Completed
    /\ Len(ev.pre_vol[ev.method].rows) >= 2
    /\ Len(hist_vol[ev.method].rows) = Len(ev.pre_vol[ev.method].rows) + 1

(***************************************************************************)
(* C6.  No persisted volatility series holds a record whose volatility is  *)
(* undefined: a day without enough history to fill lookback_window has no  *)
(* record.                                                                 *)
(***************************************************************************)
C6_NoUndefinedRecord ==
    \A m \in EstimatorNames :
       \A i \in 1..Len(hist_vol[m].rows) : ~hist_vol[m].rows[i].vol.nan

(***************************************************************************)
(* C7.  Every persisted volatility series holds at most one record per     *)
(* trading date and its records are ordered by date.                       *)
(***************************************************************************)
C7_OneRecordPerDateInOrder ==
    \A m \in EstimatorNames :
       \A i \in 1..(Len(hist_vol[m].rows) - 1) :
          hist_vol[m].rows[i].date < hist_vol[m].rows[i + 1].date

(***************************************************************************)
(* C8.  register_estimator raises and leaves the registry unchanged when   *)
(* the name is already registered and otherwise adds exactly that one      *)
(* binding; a controller called with an unregistered name raises the       *)
(* lookup error, whatever the stores hold, and leaves the stores as they   *)
(* were.                                                                   *)
(***************************************************************************)
C8_Duplicate == ev.op = "register" /\ ev.method \in DOMAIN ev.pre_sampler

C8_Register ==
    ev.op = "register"
    => IF ev.method \in DOMAIN ev.pre_sampler
       THEN /\ ev.outcomes = <<"NameError">>
            /\ sampler = ev.pre_sampler
       ELSE /\ ev.outcomes = <<"registered">>
            /\ DOMAIN sampler = DOMAIN ev.pre_sampler \cup {ev.method}
            /\ sampler[ev.method] = ev.cls
            /\ \A n \in DOMAIN ev.pre_sampler : sampler[n] = ev.pre_sampler[n]

C8_Lookup ==
    (ev.op \in {"base_compute", "incremental_compute"} /\ ev.method \notin DOMAIN sampler)
    => /\ ev.outcomes = <<"NameError">>
       /\ hist_vol = ev.pre_vol
       /\ clean_prices = ev.pre_prices

C8_RegistryChecked == C8_Register /\ C8_Lookup

\* a registration of another class under a name that is taken
C8_Witness ==
    /\ C8_Duplicate
    /\ ev.cls # ev.pre_sampler[ev.method]
    /\ ev.outcomes = <<"NameError">>

(***************************************************************************)
(* C9.  Split rebasing: every output price is the input price divided by   *)
(* the product of the ratios of exactly the splits whose date is strictly  *)
(* later than the tick's timestamp; timestamps and row order are           *)
(* unchanged; for a single ratio r every price becomes price / r.          *)
(***************************************************************************)
RECURSIVE RatioProduct(_, _)
RatioProduct(splits, ts) ==
    IF splits = <<>> THEN 1
    ELSE (IF ts < splits[1][1] * SlotsPerDay THEN splits[1][2] ELSE 1)
         * RatioProduct(Tail(splits), ts)

C9_AllSplits ==
    ev.op = "adjust_for_all_splits"
    => /\ Len(ret) = Len(arg.frame)
       /\ \A i \in 1..Len(ret) :
             /\ ret[i].ts = arg.frame[i].ts
             /\ ret[i].price * RatioProduct(arg.splits, arg.frame[i].ts)
                  = arg.frame[i].price

C9_OneSplit ==
    ev.op = "adjust_for_split"
    => /\ Len(ret) = Len(arg.frame)
       /\ \A i \in 1..Len(ret) :
             /\ ret[i].ts = arg.frame[i].ts
             /\ ret[i].price * arg.split = arg.frame[i].price

C9_SplitRebasing == C9_AllSplits /\ C9_OneSplit

\* two splits applied to a frame with a tick stamped exactly at the first split
\* date (left as it is by that split, divided by the later one) and a tick
\* before both
C9_Witness ==
    /\ ev.op = "adjust_for_all_splits"
    /\ Len(arg.splits) = 2
    /\ \E i \in 1..Len(ret) :
          /\ \E k \in 1..2 : arg.frame[i].ts = arg.splits[k][1] * SlotsPerDay
          /\ ret[i].price * arg.splits[1][2] * arg.splits[2][2] # arg.frame[i].price
          /\ ret[i].price # arg.frame[i].price
    /\ \E i \in 1..Len(ret) :
          ret[i].price * arg.splits[1][2] * arg.splits[2][2] = arg.frame[i].price

(***************************************************************************)
(* C10.  The series a batch run writes has prices > 0, times of day within *)
(* [START_TIME, END_TIME], at most one tick per timestamp, ticks ascending *)
(* by timestamp, and is the same whatever the order of the files.          *)
(***************************************************************************)
Reverse(s) == [i \in 1..Len(s) |-> s[Len(s) + 1 - i]]

C10_Written == ev.op = "base_process" /\ ev.outcomes = <<"stored">>

C10_BatchSeriesInvariants ==
    C10_Written
    => /\ \A i \in 1..Len(read_parquet(clean_prices)) :
             /\ read_parquet(clean_prices)[i].price > 0
             /\ TimeOf(read_parquet(clean_prices)[i].ts) \in START_TIME..END_TIME
       /\ StrictlyAscending(read_parquet(clean_prices))
       /\ clean_prices
            = base_process_prices(EmptyStore, Reverse(arg.files), STOCK_SPLITS).store

(***************************************************************************)
(* C11.  Yang-Zhang with business days without trades: every log ratio     *)
(* that is undefined because a bar is absent counts as 0 in the day's term, *)
(* and every date with lookback_window terms in its window has a defined    *)
(* rolling sum and a defined volatility (a radicand that is not negative).  *)
(***************************************************************************)
\* twice the overnight, range and intraday squares of bar k, 0 for a ratio with
\* an absent bar
C11_Overnight2(ohlc, k) ==
    IF k = 1 \/ ~ohlc[k].present \/ ~ohlc[k - 1].present THEN 0
    ELSE 2 * Sq(Log2Ratio(ohlc[k].open, ohlc[k - 1].close))

C11_Range(ohlc, k) ==
    IF ~ohlc[k].present THEN 0 ELSE Sq(Log2Ratio(ohlc[k].high, ohlc[k].low))

C11_Intraday2(ohlc, k) ==
    IF ~ohlc[k].present THEN 0 ELSE 2 * Sq(Log2Ratio(ohlc[k].close, ohlc[k].open))

C11_Window(k) == (k - LOOKBACK_WINDOW + 1)..k

C11_SumOver(f, S) == SumSeq(SelectSeqIdx(f, [j \in 1..Len(f) |-> j \in S], 1))

C11_DefinedAt(ohlc, k) ==
    /\ ~ret[k].vol.nan
    /\ ret[k].vol.den = 2 * LOOKBACK_WINDOW
    /\ ret[k].vol.a
         = NUM_TRADING_DAYS
             * C11_SumOver([j \in 1..Len(ohlc) |->
                              C11_Overnight2(ohlc, j) + C11_Range(ohlc, j)
                                + C11_Intraday2(ohlc, j)], C11_Window(k))
    /\ ret[k].vol.b
         = NUM_TRADING_DAYS
             * C11_SumOver([j \in 1..Len(ohlc) |-> 2 * C11_Intraday2(ohlc, j)],
                           C11_Window(k))
    \* a - b ln 2 >= 0, since ln 2 < 7 / 10
    /\ 10 * ret[k].vol.a >= 7 * ret[k].vol.b

C11_YangZhangDefined ==
    ev.op = "yang_zhang"
    => /\ Len(ret) = Len(Ohlc(arg.frame))
       /\ \A k \in LOOKBACK_WINDOW..Len(ret) : C11_DefinedAt(Ohlc(arg.frame), k)

\* a history with a business day without trades inside it: the rows of that
\* day and of the day after it are defined, and the later one is not zero
C11_Witness ==
    /\ ev.op = "yang_zhang"
    /\ \E k \in LOOKBACK_WINDOW..(Len(ret) - 1) :
          /\ ~Ohlc(arg.frame)[k].present
          /\ ~ret[k].vol.nan
          /\ ~ret[k + 1].vol.nan
          /\ ret[k + 1].vol.a > 0

(***************************************************************************)
(* C12.  The outlier filter removes observation i iff                      *)
(* |price[i] - median| > threshold * MAD, the median and the MAD taken     *)
(* over the observations of the window centred on i without observation i  *)
(* itself, at the series boundaries as well.                               *)
(***************************************************************************)
\* the neighbours of i: the window of the rolling call without i
C12_Neighbours(n, window_size, i) ==
    {j \in Max(1, i - window_size \div 2)..Min(n, i + window_size \div 2 - 1) : j # i}

C12_Values(prices, S) == SelectSeqIdx(prices, [j \in 1..Len(prices) |-> j \in S], 1)

\* |price - median| > threshold * MAD over the values w, scaled by 2 * Len(w);
\* with no neighbour the median is undefined and nothing is flagged
C12_Flagged(price, w, threshold) ==
    /\ w # <<>>
    /\ Abs(2 * price - Median2(w)) * Len(w)
         > threshold * SumSeq([j \in 1..Len(w) |-> Abs(2 * w[j] - Median2(w))])

C12_Removed(i) == \A k \in 1..Len(ret) : ret[k].ts # arg.frame[i].ts

C12_FilterExcludesSelf ==
    ev.op = "remove_outliers"
    => \A i \in 1..Len(arg.frame) :
          C12_Removed(i)
          <=> C12_Flagged(arg.frame[i].price,
                          C12_Values([j \in 1..Len(arg.frame) |-> arg.frame[j].price],
                                     C12_Neighbours(Len(arg.frame), arg.window_size, i)),
                          arg.threshold)

(***************************************************************************)
(* C13.  A cycle for a day with a split of ratio # 1 does the rebase       *)
(* instead of the estimation: no estimator is run, no record is appended   *)
(* to any volatility series and the persisted records stay as they were.   *)
(***************************************************************************)
C13_SplitCycle == Cycle /\ SplitRatioOn(ev.date) # 1

\* the estimator has run when the call got as far as reading the stored series
C13_EstimatorRan(k) == ev.outcomes[k] \in {"stored", "FileNotFoundError"}

C13_SplitCycleOnlyRebases ==
    C13_SplitCycle
    => /\ \A k \in MethodIndex : ~C13_EstimatorRan(k)
       /\ hist_vol = ev.pre_vol

(***************************************************************************)
(* C14.  The record a completed incremental_compute_volatility call for    *)
(* date D appends carries the date D, for every calendar date D, and the   *)
(* window of partitions the call loads contains the partition of D.        *)
(***************************************************************************)
C14_Completed == ev.op = "incremental_compute" /\ ev.outcomes = <<"stored">>

C14_RecordCarriesDate ==
    C14_Completed
    => /\ Len(hist_vol[ev.method].rows) = Len(ev.pre_vol[ev.method].rows) + 1
       /\ LastRow(hist_vol[ev.method].rows).date = ev.date
       /\ \E k \in 1..LOOKBACK_WINDOW :
             bdate_range(ev.date, LOOKBACK_WINDOW)[k] = ev.date

=============================================================================
